---- MODULE Spec2Model ----
(***************************************************************************)
(* Gesture engine of src/src/App.tsx: the hands.onResults callback and the *)
(* refs and React state it reads and writes.                               *)
(*                                                                         *)
(* Units.  Times are milliseconds (performance.now()).  Normalised         *)
(* distances, cursor coordinates, the zoom level and landmark coordinates  *)
(* are fixed-point thousandths (0.34 is 340); scroll offsets are pixels.   *)
(* Products of two thousandths are divided by 1000 and rounded down.       *)
(***************************************************************************)
EXTENDS Integers, Sequences, FiniteSets, TLC

\* null for a tile id
None == "none"
\* null and a present value of an object-valued ref
Null == <<>>
Some(v) == <<v>>
\* no time yet, for the history's timestamps
Never == 0 - 1

(* ------------------------------ bounds --------------------------------- *)
\* performance.now() of the first detector result: the page has loaded, the
\* script and the camera have been acquired and the detector initialised.
StartTime == 1000
\* number of tiles of the grid (INITIAL_TILES has 12)
NumTiles == 3
\* per specification, the clock value after which no further frame is delivered
MaxNow == 1500
LatchMaxNow == 1800
HoldMaxNow == 2100
PinchMaxNow == 1400
LabelMaxNow == 1900
PanArmEnd == 1300
PanMaxNow == 3000
LoopMaxNow == 1400
CursorMaxNow == 1200
\* presses of Start that run to the end of startGestureEngine
MaxStarts == 2
ClickMaxNow == 1500
DwellMaxNow == 2470
CoolMaxNow == 2400
SwipeMaxNow == 1180
QuickTapEnd == 1040
QuickHoldFrom == 1220
QuickMaxNow == 1480
DragTapEnd == 1300
DragMaxNow == 2500

(* ------------------------- program constants --------------------------- *)
PinchStartThreshold == 340
PinchHoldThreshold == 420
ArmFrames == 3
ReleaseFrames == 5
DragHoldFrames == 12
DragSwapCooldownMs == 280
TapMaxMs == 280
ClickCooldownMs == 420
DwellMs == 980
DwellCooldownMs == 600
SwipeMaxDtMs == 135
SwipeMinDx == 220
SwipeCooldownMs == 650
FirstFrameDt == 16
ZoomMin == 450
ZoomMax == 2600
ScrollMax == 360
ScrollStepMax == 22

(* ------------------------------ helpers -------------------------------- *)
Min(a, b) == IF a < b THEN a ELSE b
Max(a, b) == IF a > b THEN a ELSE b
Abs(a) == IF a < 0 THEN -a ELSE a

\* clamp(value, min, max)
clamp(value, lo, hi) == Min(hi, Max(lo, value))

\* the first NumTiles ids of INITIAL_TILES, in order
AllTileIds == <<"mail", "media", "tasks", "notes", "stats", "lights",
                "code", "boards", "docs", "music", "camera", "chat">>
INITIAL_TILES == SubSeq(AllTileIds, 1, NumTiles)

\* tiles.findIndex(tile => tile.id === id), 0-based, -1 when absent
findIndex(ts, id) ==
  IF \E i \in 1..Len(ts) : ts[i] = id
  THEN (CHOOSE i \in 1..Len(ts) : ts[i] = id /\ \A j \in 1..(i-1) : ts[j] # id) - 1
  ELSE -1

\* Math.hypot(a, b), rounded down
Hypot(a, b) ==
  IF b = 0 THEN Abs(a)
  ELSE IF a = 0 THEN Abs(b)
  ELSE CHOOSE r \in Max(Abs(a), Abs(b))..(Abs(a) + Abs(b)) :
              r * r <= a * a + b * b /\ (r + 1) * (r + 1) > a * a + b * b

(* ------------------------------- state --------------------------------- *)
VARIABLES
  now,                  \* performance.now() read by the latest callback
  \* refs
  pinchState, clickCooldown, pinchFrames, scrollFrames, zoomFrames,
  scrollReleaseFrames, zoomReleaseFrames, scrollMode, zoomMode, dragFrames,
  dragSwapCooldown, dragTarget, pinchStartTime, zoomState, scrollAnchor,
  previousPoint, swipeCooldown, dwell,
  \* React state
  tiles, cursor, handVisible, pinching, dragging, gestureMode, zoomLevel,
  scrollOffset, scrollOffsetX, dwellProgress, activeTile,
  \* the render-time values the registered callback closed over
  closure,
  \* the frame loop: started engines, pending animation frames, processingRef,
  \* detector invocations in flight, teardown
  loop,
  \* what the latest callback emitted and observed (history, not program state)
  events, lastFrame, prev, hist

refs == <<pinchState, clickCooldown, pinchFrames, scrollFrames, zoomFrames,
          scrollReleaseFrames, zoomReleaseFrames, scrollMode, zoomMode, dragFrames,
          dragSwapCooldown, dragTarget, pinchStartTime, zoomState, scrollAnchor,
          previousPoint, swipeCooldown, dwell>>
ui == <<tiles, cursor, handVisible, pinching, dragging, gestureMode, zoomLevel,
        scrollOffset, scrollOffsetX, dwellProgress, activeTile>>
vars == <<now, refs, ui, closure, loop, events, lastFrame, prev, hist>>

(* --------------------------- signals (403-406) ------------------------- *)
\* middleTip ? normalizedDistance(middleTip, thumbTip) : 1
MiddleThumbDistance(f) == IF f.middleTip THEN f.mt ELSE 1000
\* middleTip ? normalizedDistance(indexTip, middleTip) : 1
NormalizedIndexMiddle(f) == IF f.middleTip THEN f.im ELSE 1000

ScrollStart(f) == NormalizedIndexMiddle(f) < 220 /\ MiddleThumbDistance(f) > 340
ScrollHold(f) == NormalizedIndexMiddle(f) < 300 /\ MiddleThumbDistance(f) > 280
ZoomStart(f) == MiddleThumbDistance(f) < 240 /\ NormalizedIndexMiddle(f) > 250
ZoomHold(f) == MiddleThumbDistance(f) < 340 /\ NormalizedIndexMiddle(f) > 200

(* ----------------------- mode arbiter (408-450) ------------------------ *)
\* the zoom latch entering the mode on the first frame with the start signal
ZoomLatchArmsAtOnce(f) ==
  IF zoomMode
  THEN LET release == IF ZoomHold(f) THEN 0 ELSE zoomReleaseFrames + 1 IN
       IF release > ReleaseFrames
       THEN [mode |-> FALSE, frames |-> zoomFrames, release |-> 0, cleared |-> TRUE]
       ELSE [mode |-> TRUE, frames |-> zoomFrames, release |-> release, cleared |-> FALSE]
  ELSE IF ~scrollMode /\ ZoomStart(f)
  THEN [mode |-> TRUE, frames |-> 0, release |-> zoomReleaseFrames, cleared |-> FALSE]
  ELSE [mode |-> FALSE, frames |-> 0, release |-> zoomReleaseFrames, cleared |-> FALSE]

\* the zoom latch leaving the release counter as it is when the mode is released
ZoomLatchKeepsCount(f) ==
  IF zoomMode
  THEN LET release == IF ZoomHold(f) THEN 0 ELSE zoomReleaseFrames + 1 IN
       IF release > ReleaseFrames
       THEN [mode |-> FALSE, frames |-> zoomFrames, release |-> release, cleared |-> TRUE]
       ELSE [mode |-> TRUE, frames |-> zoomFrames, release |-> release, cleared |-> FALSE]
  ELSE IF ~scrollMode /\ ZoomStart(f)
  THEN IF zoomFrames + 1 >= ArmFrames
       THEN [mode |-> TRUE, frames |-> 0, release |-> zoomReleaseFrames, cleared |-> FALSE]
       ELSE [mode |-> FALSE, frames |-> zoomFrames + 1, release |-> zoomReleaseFrames,
             cleared |-> FALSE]
  ELSE [mode |-> FALSE, frames |-> 0, release |-> zoomReleaseFrames, cleared |-> FALSE]

\* the zoom latch: [mode, frames, release, cleared] after lines 408-428
ZoomLatch(f) ==
  IF zoomMode
  THEN LET release == IF ZoomHold(f) THEN 0 ELSE zoomReleaseFrames + 1 IN
       IF release > ReleaseFrames
       THEN [mode |-> FALSE, frames |-> zoomFrames, release |-> 0, cleared |-> TRUE]
       ELSE [mode |-> TRUE, frames |-> zoomFrames, release |-> release, cleared |-> FALSE]
  ELSE IF ~scrollMode /\ ZoomStart(f)
  THEN IF zoomFrames + 1 >= ArmFrames
       THEN [mode |-> TRUE, frames |-> 0, release |-> zoomReleaseFrames, cleared |-> FALSE]
       ELSE [mode |-> FALSE, frames |-> zoomFrames + 1, release |-> zoomReleaseFrames,
             cleared |-> FALSE]
  ELSE [mode |-> FALSE, frames |-> 0, release |-> zoomReleaseFrames, cleared |-> FALSE]

\* the scroll latch arming whatever the zoom latch holds
ScrollLatchIgnoringZoom(f, zoomModeNow) ==
  IF scrollMode
  THEN LET release == IF ScrollHold(f) THEN 0 ELSE scrollReleaseFrames + 1 IN
       IF release > ReleaseFrames
       THEN [mode |-> FALSE, frames |-> scrollFrames, release |-> 0, cleared |-> TRUE]
       ELSE [mode |-> TRUE, frames |-> scrollFrames, release |-> release, cleared |-> FALSE]
  ELSE IF ScrollStart(f)
  THEN IF scrollFrames + 1 >= ArmFrames
       THEN [mode |-> TRUE, frames |-> 0, release |-> scrollReleaseFrames, cleared |-> FALSE]
       ELSE [mode |-> FALSE, frames |-> scrollFrames + 1, release |-> scrollReleaseFrames,
             cleared |-> FALSE]
  ELSE [mode |-> FALSE, frames |-> 0, release |-> scrollReleaseFrames, cleared |-> FALSE]

\* the scroll latch: [mode, frames, release, cleared] after lines 430-450;
\* zoomModeNow is zoomModeRef.current as the zoom latch has just left it
ScrollLatch(f, zoomModeNow) ==
  IF scrollMode
  THEN LET release == IF ScrollHold(f) THEN 0 ELSE scrollReleaseFrames + 1 IN
       IF release > ReleaseFrames
       THEN [mode |-> FALSE, frames |-> scrollFrames, release |-> 0, cleared |-> TRUE]
       ELSE [mode |-> TRUE, frames |-> scrollFrames, release |-> release, cleared |-> FALSE]
  ELSE IF ~zoomModeNow /\ ScrollStart(f)
  THEN IF scrollFrames + 1 >= ArmFrames
       THEN [mode |-> TRUE, frames |-> 0, release |-> scrollReleaseFrames, cleared |-> FALSE]
       ELSE [mode |-> FALSE, frames |-> scrollFrames + 1, release |-> scrollReleaseFrames,
             cleared |-> FALSE]
  ELSE [mode |-> FALSE, frames |-> 0, release |-> scrollReleaseFrames, cleared |-> FALSE]

\* ModeLocks with each latch arming whatever the other holds and neither
\* branch clearing the other's lock
ModeLocksIndependent(f) ==
  LET z == IF zoomMode THEN ZoomLatch(f)
           ELSE IF ZoomStart(f)
           THEN IF zoomFrames + 1 >= ArmFrames
                THEN [mode |-> TRUE, frames |-> 0, release |-> zoomReleaseFrames,
                      cleared |-> FALSE]
                ELSE [mode |-> FALSE, frames |-> zoomFrames + 1,
                      release |-> zoomReleaseFrames, cleared |-> FALSE]
           ELSE [mode |-> FALSE, frames |-> 0, release |-> zoomReleaseFrames,
                 cleared |-> FALSE]
      s == ScrollLatch(f, FALSE)
  IN  [z |-> z, s |-> s, zoomGesture |-> z.mode, scrollGesture |-> s.mode,
       scrollMode |-> s.mode, zoomMode |-> z.mode]

\* The two locks over one frame: zoomGesture and scrollGesture are the values
\* read at 452-453; zoomMode and scrollMode are the refs at the end of the
\* frame, after the zoom branch has cleared scrollModeRef (483) and the scroll
\* branch zoomModeRef (510).
ModeLocks(f) ==
  LET z == ZoomLatch(f)
      s == ScrollLatch(f, z.mode)
  IN  [z |-> z, s |-> s,
       zoomGesture |-> z.mode,
       scrollGesture |-> s.mode,
       scrollMode |-> IF z.mode THEN FALSE ELSE s.mode,
       zoomMode |-> IF s.mode /\ f.middleTip THEN FALSE ELSE z.mode]

(* --------------------------- pinch (455-466) --------------------------- *)
\* nextPinch without the lock guards
NextPinchIgnoringLocks(f, scrollGesture, zoomGesture) ==
  IF pinchState THEN f.pinch < PinchHoldThreshold ELSE f.pinch < PinchStartThreshold

\* nextPinch, line 457
NextPinch(f, scrollGesture, zoomGesture) ==
  /\ IF pinchState THEN f.pinch < PinchHoldThreshold ELSE f.pinch < PinchStartThreshold
  /\ ~scrollGesture
  /\ ~zoomGesture

(* --------------------------- cursor (372-401) -------------------------- *)
\* nextCursor without its clamps
NextCursorUnclamped(f) == [x |-> 1000 - f.x, y |-> f.y]

\* nextCursor: the mirrored, clamped index fingertip
NextCursor(f) == [x |-> clamp(1000 - f.x, 0, 1000), y |-> clamp(f.y, 0, 1000)]

\* dt, line 389
FrameDt(t) == IF previousPoint # Null THEN t - previousPoint[1].t ELSE FirstFrameDt

\* smooth, lines 390-393: clamp(0.22 + velocity * 1.8, 0.22, 0.56) with
\* velocity = hypot(...) / max(dt, 1)
Smooth(f, t) ==
  IF previousPoint = Null THEN 220
  ELSE LET n == NextCursor(f)
           h == Hypot(n.x - previousPoint[1].x, n.y - previousPoint[1].y)
       IN  clamp(220 + (18 * h) \div (10 * Max(FrameDt(t), 1)), 220, 560)

\* stableCursor, lines 394-399
StableCursor(f, t) ==
  LET n == NextCursor(f)
      a == Smooth(f, t)
  IN  IF previousPoint = Null THEN n
      ELSE [x |-> (previousPoint[1].x * (1000 - a) + n.x * a) \div 1000,
            y |-> (previousPoint[1].y * (1000 - a) + n.y * a) \div 1000]

(* ------------------------ zoom branch (468-490) ------------------------ *)
\* zoomStateRef after the branch; base is zoomStateRef as the latch left it
ZoomStateAfter(f, zoomGesture, base) ==
  IF ~zoomGesture THEN Null
  ELSE IF base = Null THEN Some([lastDistance |-> MiddleThumbDistance(f)])
  ELSE Some([lastDistance |->
               (base[1].lastDistance * 450 + MiddleThumbDistance(f) * 550) \div 1000])

\* zoomLevel after the branch (setZoomLevel, 474-477)
ZoomLevelAfter(f, zoomGesture, base) ==
  IF zoomGesture /\ base # Null
  THEN LET delta == MiddleThumbDistance(f) - base[1].lastDistance IN
       IF Abs(delta) > 1
       THEN clamp(zoomLevel + (delta * 36) \div 10, ZoomMin, ZoomMax)
       ELSE zoomLevel
  ELSE zoomLevel

(* ----------------------- scroll branch (492-517) ----------------------- *)
ScrollMidpoint(f) == [x |-> (f.x + f.mx) \div 2, y |-> (f.y + f.my) \div 2]

\* scrollAnchorRef after the branch; anchor is the ref as the zoom branch left it
ScrollAnchorAfter(f, scrollGesture, anchor) ==
  IF ~(scrollGesture /\ f.middleTip) THEN Null
  ELSE IF anchor = Null THEN Some(ScrollMidpoint(f))
  ELSE Some([x |-> (anchor[1].x * 650 + ScrollMidpoint(f).x * 350) \div 1000,
             y |-> (anchor[1].y * 650 + ScrollMidpoint(f).y * 350) \div 1000])

\* the scroll steps without their clamps
ScrollStepsUnclamped(f, scrollGesture, anchor) ==
  IF scrollGesture /\ f.middleTip /\ anchor # Null
  THEN [y |-> ((ScrollMidpoint(f).y - anchor[1].y) * 180) \div 1000,
        x |-> ((anchor[1].x - ScrollMidpoint(f).x) * 180) \div 1000]
  ELSE [y |-> 0, x |-> 0]

\* easedStepY and easedStepX, lines 499-502 (pixels)
ScrollSteps(f, scrollGesture, anchor) ==
  IF scrollGesture /\ f.middleTip /\ anchor # Null
  THEN [y |-> clamp(((ScrollMidpoint(f).y - anchor[1].y) * 180) \div 1000,
                    -ScrollStepMax, ScrollStepMax),
        x |-> clamp(((anchor[1].x - ScrollMidpoint(f).x) * 180) \div 1000,
                    -ScrollStepMax, ScrollStepMax)]
  ELSE [y |-> 0, x |-> 0]

(* ------------------------- tiles (189-230) ----------------------------- *)
RemoveAt(q, i) == SubSeq(q, 1, i - 1) \o SubSeq(q, i + 1, Len(q))
InsertAt(q, i, e) == SubSeq(q, 1, i - 1) \o <<e>> \o SubSeq(q, i, Len(q))

\* reorderTiles(fromId, toId) applied to the current tiles
reorderTiles(current, fromId, toId) ==
  IF fromId = toId THEN current
  ELSE LET fromIndex == findIndex(current, fromId)
           toIndex == findIndex(current, toId)
       IN  IF fromIndex < 0 \/ toIndex < 0 THEN current
           ELSE InsertAt(RemoveAt(current, fromIndex + 1), toIndex + 1, fromId)

\* the updater triggerTileClick passes to setActiveTile
ToggleTile(current, tileId) == IF current = tileId THEN None ELSE tileId

\* the updater triggerSwipeSelect passes to setActiveTile; capturedTiles is the
\* tiles array of the render the callback was created in
SwipeTarget(current, direction, capturedTiles) ==
  LET currentIndex == findIndex(capturedTiles, current)
      safeIndex == IF currentIndex = -1 THEN 0 ELSE currentIndex
      delta == IF direction = "right" THEN 1 ELSE -1
      nextIndex == (safeIndex + delta + Len(capturedTiles)) % Len(capturedTiles)
  IN  capturedTiles[nextIndex + 1]

(* ---------------------- drag and reorder (519-537) --------------------- *)
\* dragFramesRef kept when the pinch ends
DragFramesKept(nextPinch, zoomGesture, scrollGesture) ==
  IF nextPinch /\ ~zoomGesture /\ ~scrollGesture THEN dragFrames + 1 ELSE dragFrames

\* dragFramesRef after lines 519-525
DragFramesAfter(nextPinch, zoomGesture, scrollGesture) ==
  IF nextPinch /\ ~zoomGesture /\ ~scrollGesture THEN dragFrames + 1 ELSE 0

\* the activeTile the callback reads: the value of the render it closed over
CallbackActiveTile == closure.activeTile

\* whether lines 527-537 reorder on this frame
DragSwaps(f, t, dragFramesNow, dragTargetNow) ==
  /\ dragFramesNow > DragHoldFrames
  /\ CallbackActiveTile # None
  /\ f.hover # None
  /\ f.hover # CallbackActiveTile
  /\ f.hover # dragTargetNow
  /\ t - dragSwapCooldown > DragSwapCooldownMs

(* --------------------------- click (539-553) --------------------------- *)
\* shouldClick with the tap window's comparison the wrong way round
ShouldClickLongPinch(t, nextPinch, scrollGesture, zoomGesture) ==
  /\ ~nextPinch
  /\ pinchState
  /\ t - pinchStartTime > TapMaxMs
  /\ ~scrollGesture
  /\ ~zoomGesture
  /\ t - clickCooldown > ClickCooldownMs

\* shouldClick without the tap window
ShouldClickAnyDuration(t, nextPinch, scrollGesture, zoomGesture) ==
  /\ ~nextPinch
  /\ pinchState
  /\ ~scrollGesture
  /\ ~zoomGesture
  /\ t - clickCooldown > ClickCooldownMs

\* shouldClick on a frame that ends a pinch
ShouldClick(t, nextPinch, scrollGesture, zoomGesture) ==
  /\ ~nextPinch
  /\ pinchState
  /\ t - pinchStartTime < TapMaxMs
  /\ ~scrollGesture
  /\ ~zoomGesture
  /\ t - clickCooldown > ClickCooldownMs

(* --------------------------- swipe (555-565) --------------------------- *)
\* dx of line 560, defined when previousPoint is
SwipeDx(f, t) == StableCursor(f, t).x - previousPoint[1].x

\* the swipe test without its cooldown
SwipeFiresEveryFrame(f, t, pointer) ==
  /\ pointer
  /\ previousPoint # Null
  /\ FrameDt(t) < SwipeMaxDtMs
  /\ Abs(SwipeDx(f, t)) > SwipeMinDx

\* whether lines 559-565 swipe on this frame
SwipeFires(f, t, pointer) ==
  /\ pointer
  /\ previousPoint # Null
  /\ FrameDt(t) < SwipeMaxDtMs
  /\ Abs(SwipeDx(f, t)) > SwipeMinDx
  /\ t - swipeCooldown > SwipeCooldownMs

(* --------------------------- dwell (567-585) --------------------------- *)
\* progress of line 573, in thousandths
DwellProgressOf(t) == clamp(((t - dwell.startedAt) * 1000) \div DwellMs, 0, 1000)

\* the dwell test without its cooldown
DwellFiresWithoutCooldown(f, t, pointer, cooldownNow) ==
  /\ pointer
  /\ f.hover # None
  /\ dwell.id = f.hover
  /\ DwellProgressOf(t) >= 1000

\* whether the dwell detector clicks; cooldownNow is clickCooldownRef as the
\* click branch left it
DwellFires(f, t, pointer, cooldownNow) ==
  /\ pointer
  /\ f.hover # None
  /\ dwell.id = f.hover
  /\ DwellProgressOf(t) >= 1000
  /\ t - cooldownNow > DwellCooldownMs

\* dwellRef after the pointer branch
DwellAfter(f, t, pointer, cooldownNow) ==
  IF ~pointer THEN dwell
  ELSE IF f.hover = None THEN [id |-> None, startedAt |-> 0]
  ELSE IF dwell.id # f.hover THEN [id |-> f.hover, startedAt |-> t]
  ELSE IF DwellFires(f, t, pointer, cooldownNow) THEN [id |-> f.hover, startedAt |-> t]
  ELSE dwell

(* ------------------------ labels and indicators ------------------------ *)
\* gestureMode after the frame: the last setGestureMode call wins
\* (469, 493, 529, 548, 556, 228 in call order); unchanged when none is made
GestureLabel(zoomGesture, scrollBranch, dragMode, click, pointer, swipe) ==
  IF swipe THEN "swipe"
  ELSE IF pointer THEN "pointer"
  ELSE IF click THEN "click"
  ELSE IF dragMode THEN "pointer"
  ELSE IF scrollBranch THEN "scroll"
  ELSE IF zoomGesture THEN "zoom"
  ELSE gestureMode

\* dwellProgress after the frame (486, 513, 551, 571, 574, 579, 584)
DwellProgressAfter(f, t, zoomGesture, scrollBranch, pointer, fires) ==
  IF pointer
  THEN IF f.hover = None \/ dwell.id # f.hover \/ fires THEN 0 ELSE DwellProgressOf(t)
  ELSE IF zoomGesture \/ scrollBranch THEN 0
  ELSE dwellProgress

(* ------------------------------ history -------------------------------- *)
\* Bookkeeping over the frames delivered so far; nothing the program reads.
\*   hover, hoverSince    the tile under the cursor on the latest processed
\*                        frame and the time of the first frame of its
\*                        unbroken hover
\*   pointerSince         the time of the first of the latest unbroken run of
\*                        pointer sub-mode frames over that tile, or Never
\*   dwellClicks          DwellClicks emitted in that run
\*   reorders             DragReorders to that tile emitted in that hover
\*   pinchBeganAt         the time of the frame on which the latest pinch began
\*   dragEntered          whether, on a frame of the pinch in progress, the drag
\*                        counter was above 12 with a tile selected
\*   lastClickAt          the time of the latest Click or DwellClick emitted
\*   lastSwipeAt          the time of the latest SwipeSelect emitted
\*   lastReorderAt        the time of the latest DragReorder emitted
\*   scrollStartRun, zoomStartRun   consecutive processed frames with the start
\*                        signal since the last no-hand frame, counted to 3
\*   scrollDropRun, zoomDropRun     consecutive processed frames that found
\*                        the lock held and had its hold signal false
\*   zoomArmRun           consecutive processed frames with the zoom start signal
\*                        that found neither lock held
\*   scrollArmRun         consecutive processed frames with the scroll start
\*                        signal that found scroll not held and left zoom not
\*                        held
\*   pinch                the normalised thumb-index distance of the latest
\*                        processed frame when it left neither lock held,
\*                        Never otherwise
\*   mt                   the normalised middle-thumb distance of the latest
\*                        processed frame when it left zoom held, Never
\*                        otherwise
\*   lostIn               the lock held when the hand was last lost ("idle" for
\*                        neither), "never" before the first loss
\*   middleTip            whether the latest processed frame had its middle tip
\*   coolSinceLost        the time clickCooldownRef was last set since the last
\*                        no-hand frame, 0 when it has not been: the value the
\*                        ref would hold had the engine seen nothing before
\*                        that frame
\*   rawTip               the index fingertip of the latest processed frame, as
\*                        the detector gave it
HistInit ==
  [hover |-> None, hoverSince |-> 0, pointerSince |-> Never, dwellClicks |-> 0,
   reorders |-> 0, pinchBeganAt |-> 0, lastClickAt |-> Never, lastSwipeAt |-> Never,
   lastReorderAt |-> Never, dragEntered |-> FALSE,
   scrollStartRun |-> 0, zoomStartRun |-> 0, lostIn |-> "never", middleTip |-> TRUE,
   coolSinceLost |-> 0, scrollDropRun |-> 0, zoomDropRun |-> 0,
   scrollArmRun |-> 0, zoomArmRun |-> 0, pinch |-> Never,
   mt |-> Never,
   rawTip |-> [x |-> 500, y |-> 500]]

HistLost ==
  [hist EXCEPT !.hover = None, !.hoverSince = 0, !.pointerSince = Never,
               !.dwellClicks = 0, !.reorders = 0, !.pinchBeganAt = 0,
               !.dragEntered = FALSE,
               !.scrollStartRun = 0, !.zoomStartRun = 0, !.coolSinceLost = 0,
               !.scrollDropRun = 0, !.zoomDropRun = 0,
               !.scrollArmRun = 0, !.zoomArmRun = 0, !.pinch = Never,
               !.mt = Never,
               !.lostIn = IF scrollMode THEN "scroll" ELSE IF zoomMode THEN "zoom" ELSE "idle"]

HistAfter(f, t, nextPinch, pointer, clicked, dwellClicked, swiped, swapped) ==
  LET sameHover == f.hover # None /\ f.hover = hist.hover
      inRun == pointer /\ f.hover # None
      sameRun == inRun /\ sameHover /\ hist.pointerSince # Never
      one(b) == IF b THEN 1 ELSE 0
  IN  [hover |-> f.hover,
       hoverSince |-> IF f.hover = None THEN 0 ELSE IF sameHover THEN hist.hoverSince ELSE t,
       pointerSince |-> IF ~inRun THEN Never ELSE IF sameRun THEN hist.pointerSince ELSE t,
       dwellClicks |-> IF ~inRun THEN 0
                       ELSE (IF sameRun THEN hist.dwellClicks ELSE 0) + one(dwellClicked),
       reorders |-> IF f.hover = None THEN 0
                    ELSE (IF sameHover THEN hist.reorders ELSE 0) + one(swapped),
       pinchBeganAt |-> IF nextPinch /\ ~pinchState THEN t
                        ELSE IF nextPinch \/ pinchState THEN hist.pinchBeganAt
                        ELSE 0,
       dragEntered |-> /\ nextPinch
                       /\ \/ pinchState /\ hist.dragEntered
                          \/ dragFrames' > DragHoldFrames /\ activeTile' # None,
       lastClickAt |-> IF clicked \/ dwellClicked THEN t ELSE hist.lastClickAt,
       lastSwipeAt |-> IF swiped THEN t ELSE hist.lastSwipeAt,
       lastReorderAt |-> IF swapped THEN t ELSE hist.lastReorderAt,
       scrollStartRun |-> IF ScrollStart(f) THEN Min(hist.scrollStartRun + 1, ArmFrames) ELSE 0,
       zoomStartRun |-> IF ZoomStart(f) THEN Min(hist.zoomStartRun + 1, ArmFrames) ELSE 0,
       scrollDropRun |-> IF scrollMode /\ ~ScrollHold(f) THEN hist.scrollDropRun + 1 ELSE 0,
       zoomDropRun |-> IF zoomMode /\ ~ZoomHold(f) THEN hist.zoomDropRun + 1 ELSE 0,
       zoomArmRun |-> IF ~zoomMode /\ ~scrollMode /\ ZoomStart(f)
                      THEN hist.zoomArmRun + 1 ELSE 0,
       scrollArmRun |-> IF ~scrollMode /\ ~zoomMode' /\ ScrollStart(f)
                        THEN hist.scrollArmRun + 1 ELSE 0,
       pinch |-> IF scrollMode' \/ zoomMode' THEN Never ELSE f.pinch,
       mt |-> IF zoomMode' THEN MiddleThumbDistance(f) ELSE Never,
       lostIn |-> hist.lostIn,
       middleTip |-> f.middleTip,
       coolSinceLost |-> IF clickCooldown' # clickCooldown THEN clickCooldown'
                         ELSE hist.coolSinceLost,
       rawTip |-> [x |-> f.x, y |-> f.y]]

Snapshot == [pinchState |-> pinchState, scrollMode |-> scrollMode, zoomMode |-> zoomMode]

(* ------------------------------- frames -------------------------------- *)
\* the three distances are the sides of one triangle of fingertips
Triangle(a, b, c) == a <= b + c /\ b <= a + c /\ c <= a + b

\* A processed frame: the index tip (x, y), the middle tip (mx, my) when it is
\* present, the normalised distances of 384-386 (pinch, mt, im), and the tile
\* getTileAtCursor returns for the frame's cursor (hover).
FramesOver(tips, pinches, signals, middleMissing, hovers) ==
  UNION { { [x |-> p.x, y |-> p.y, middleTip |-> TRUE, mx |-> p.x, my |-> p.y,
             pinch |-> d, mt |-> g[1], im |-> g[2], hover |-> h] :
              p \in tips, g \in {q \in signals : Triangle(d, q[1], q[2])}, h \in hovers }
          \cup
          { [x |-> p.x, y |-> p.y, middleTip |-> FALSE, mx |-> 0, my |-> 0,
             pinch |-> d, mt |-> 0, im |-> 0, hover |-> h] :
              p \in tips, h \in hovers, m \in middleMissing } : d \in pinches }

\* index fingertip positions: the hand held still
StillTips == {[x |-> 500, y |-> 500]}

\* Normalised thumb-index distances: pinching and open.
Pinched == 300
Open == 450

\* <<middleThumbDistance, normalizedIndexMiddle>> of a frame with a middle tip
SigZoomStart == <<200, 260>>
SigZoomHold == <<200, 230>>
SigBothHold == <<300, 260>>
SigScrollStart == <<400, 150>>
SigScrollHold == <<400, 260>>
SigNone == <<400, 400>>

Tile1 == INITIAL_TILES[1]
Tile2 == INITIAL_TILES[2]

\* Spec: every latch signal, with and without a pinch, over one tile
Dts == {100}
Frames ==
  FramesOver(StillTips, {Pinched, Open},
             {SigZoomStart, SigZoomHold, SigBothHold, SigScrollStart, SigScrollHold, SigNone},
             {TRUE}, {Tile1})

\* SpecCursor: the fingertip reported inside the image and well outside it on
\* either side
WildTips == {[x |-> 500, y |-> 500], [x |-> 0 - 500, y |-> 1500], [x |-> 1500, y |-> 0 - 500]}
CursorDts == {30, 140}
CursorFrames == FramesOver(WildTips, {Open}, {SigNone}, {}, {None})

\* SpecLoop: an open hand over no tile (getTileAtCursor finds no screen
\* element once the component has unmounted)
LoopDts == {100}
LoopFrames == FramesOver(StillTips, {Pinched, Open}, {SigNone}, {TRUE}, {None})

\* SpecLatch: every latch signal on an open hand over no tile, for as many
\* frames as arming a lock, losing the hand and arming again takes
LatchDts == {100}
LatchFrames ==
  FramesOver(StillTips, {Open},
             {SigZoomStart, SigZoomHold, SigBothHold, SigScrollStart, SigScrollHold, SigNone},
             {TRUE}, {None})

\* SpecHold: the two start signals and no signal on an open hand, for as many
\* frames as arming a lock, releasing it and arming the other takes
HoldDts == {100}
HoldFrames == FramesOver(StillTips, {Open}, {SigZoomStart, SigScrollStart, SigNone}, {}, {None})

\* SpecPinch: thumb-index distances below, on and above the two pinch
\* thresholds, with a zoom signal to take the lock
PinchDts == {100}
PinchFrames ==
  FramesOver(StillTips, {Pinched, PinchStartThreshold, PinchHoldThreshold, Open},
             {SigZoomStart, SigNone}, {}, {None})

\* SpecPan: a lock armed with the hand at the centre until PanArmEnd, then the
\* fingertips reported far outside the image, so that the scroll anchor trails
\* them for as many frames as the offsets take to reach their limits; frames
\* without a middle tip move the zoom level to its limits
FarTips == {[x |-> 1000000, y |-> 1000000]}
PanDts == {100}
PanArmFrames == FramesOver(StillTips, {Open}, {SigZoomStart, SigScrollStart}, {}, {None})
PanFrames == FramesOver(FarTips, {Open}, {SigScrollStart}, {TRUE}, {None})

\* SpecLabel: the frames of SpecHold and a pinching hand with no signal, for
\* as many frames as arming a lock and releasing it takes
LabelDts == {100}
LabelFrames == HoldFrames \cup FramesOver(StillTips, {Pinched}, {SigNone}, {}, {None})

\* SpecClick: taps of every length over a tile and over none, with a zoom
\* start signal to cut a pinch short
ClickDts == {100, 140}
ClickFrames ==
  FramesOver(StillTips, {Pinched, Open}, {SigZoomStart, SigNone}, {},
             {None, Tile1})

\* SpecDwell: long frame gaps, a pinch that can start, hold and end, over a
\* tile and over none
DwellDts == {245, 490}
DwellFrames == FramesOver(StillTips, {Pinched, Open}, {SigNone}, {}, {None, Tile1})

\* SpecCooldown: a pinching or open hand over one tile, frames close enough
\* for a tap to end within a cooldown, for as long as a dwell click followed
\* by a tap takes
CoolDts == {140}
CoolFrames == FramesOver(StillTips, {Pinched, Open}, {SigNone}, {}, {Tile1})

\* SpecSwipe: the fingertip at either edge of the image, frames a display
\* refresh apart or too far apart to swipe
EdgeTips == {[x |-> 0, y |-> 500], [x |-> 1000, y |-> 500]}
SwipeDts == {30, 140}
SwipeFrames == FramesOver(EdgeTips, {Pinched, Open}, {SigNone}, {}, {None})

\* SpecQuick: a hand over one tile at 50 frames a second: pinching or open
\* until QuickTapEnd, long enough for a tap that selects the tile, then open,
\* and from QuickHoldFrom pinching or open again, for as long as the click
\* cooldown and a pinch of 13 frames take
QuickDts == {20}
QuickOpenFrames == FramesOver(StillTips, {Open}, {SigNone}, {}, {Tile1})
QuickPinchFrames == FramesOver(StillTips, {Pinched}, {SigNone}, {}, {Tile1})

\* SpecDrag: taps over either of two tiles until DragTapEnd, and a pinch held
\* over them at any time
DragDts == {100}
DragTapFrames == FramesOver(StillTips, {Open}, {SigNone}, {}, {Tile1, Tile2})
DragPinchFrames == FramesOver(StillTips, {Pinched}, {SigNone}, {}, {Tile1, Tile2})

(* ----------------------- frame loop (132-144, 594-610) ----------------- *)
\* The loop after one startGestureEngine has run to its end (608-610).
\*   started        engines started: each has its own stream and render chain
\*   raf            requestAnimationFrame callbacks pending
\*   processing     processingRef.current
\*   inFlight       hands.send() calls not yet settled
\*   tornDown       the component has unmounted: videoRef.current is null and
\*                  the cleanup of 132-144 has run
\*   liveStreams    camera streams whose tracks have not been stopped
\*   closed         hands.close() has been called
\* and, as history: skipped (a render tick found processingRef set),
\* refsAtTeardown (the refs when the cleanup ran), lateResults (a result
\* arrived after the cleanup).
LoopInit ==
  [started |-> 1, raf |-> 1, processing |-> FALSE, inFlight |-> 0,
   tornDown |-> FALSE, liveStreams |-> 1, closed |-> FALSE,
   skipped |-> FALSE, refsAtTeardown |-> <<>>, lateResults |-> FALSE]

(* -------------------------------- Init --------------------------------- *)
\* The refs and state as declared at 93-128, after startGestureEngine has
\* registered the callback and set the mode label (334, 610).
Init ==
  /\ now = StartTime
  /\ pinchState = FALSE
  /\ clickCooldown = 0
  /\ pinchFrames = 0
  /\ scrollFrames = 0
  /\ zoomFrames = 0
  /\ scrollReleaseFrames = 0
  /\ zoomReleaseFrames = 0
  /\ scrollMode = FALSE
  /\ zoomMode = FALSE
  /\ dragFrames = 0
  /\ dragSwapCooldown = 0
  /\ dragTarget = None
  /\ pinchStartTime = 0
  /\ zoomState = Null
  /\ scrollAnchor = Null
  /\ previousPoint = Null
  /\ swipeCooldown = 0
  /\ dwell = [id |-> None, startedAt |-> 0]
  /\ tiles = INITIAL_TILES
  /\ cursor = [x |-> 500, y |-> 500]
  /\ handVisible = FALSE
  /\ pinching = FALSE
  /\ dragging = FALSE
  /\ gestureMode = "pointer"
  /\ zoomLevel = 1000
  /\ scrollOffset = 0
  /\ scrollOffsetX = 0
  /\ dwellProgress = 0
  /\ activeTile = None
  /\ closure = [activeTile |-> None, tiles |-> INITIAL_TILES]
  /\ loop = LoopInit
  /\ events = <<>>
  /\ lastFrame = "start"
  /\ prev = Snapshot
  /\ hist = HistInit

(* ------------------------------- actions ------------------------------- *)
\* HandLost without lines 358-359
HandLostKeepsPoint(dt) ==
  /\ now' = now + dt
  /\ handVisible' = FALSE
  /\ pinching' = FALSE
  /\ dragging' = FALSE
  /\ gestureMode' = "idle"
  /\ dwellProgress' = 0
  /\ pinchState' = FALSE
  /\ pinchFrames' = 0
  /\ scrollFrames' = 0
  /\ zoomFrames' = 0
  /\ scrollReleaseFrames' = 0
  /\ zoomReleaseFrames' = 0
  /\ scrollMode' = FALSE
  /\ zoomMode' = FALSE
  /\ dragFrames' = 0
  /\ dragTarget' = None
  /\ pinchStartTime' = 0
  /\ zoomState' = Null
  /\ scrollAnchor' = Null
  /\ UNCHANGED <<previousPoint, dwell, clickCooldown, dragSwapCooldown, swipeCooldown, tiles, cursor,
                 zoomLevel, scrollOffset, scrollOffsetX, activeTile, closure>>
  /\ events' = <<>>
  /\ lastFrame' = "lost"
  /\ prev' = Snapshot
  /\ hist' = HistLost

\* HandLost without lines 347-348
HandLostKeepsArming(dt) ==
  /\ now' = now + dt
  /\ handVisible' = FALSE
  /\ pinching' = FALSE
  /\ dragging' = FALSE
  /\ gestureMode' = "idle"
  /\ dwellProgress' = 0
  /\ pinchState' = FALSE
  /\ pinchFrames' = 0
  /\ scrollReleaseFrames' = 0
  /\ zoomReleaseFrames' = 0
  /\ scrollMode' = FALSE
  /\ zoomMode' = FALSE
  /\ dragFrames' = 0
  /\ dragTarget' = None
  /\ pinchStartTime' = 0
  /\ zoomState' = Null
  /\ scrollAnchor' = Null
  /\ previousPoint' = Null
  /\ dwell' = [id |-> None, startedAt |-> 0]
  /\ UNCHANGED <<scrollFrames, zoomFrames, clickCooldown, dragSwapCooldown, swipeCooldown, tiles, cursor,
                 zoomLevel, scrollOffset, scrollOffsetX, activeTile, closure>>
  /\ events' = <<>>
  /\ lastFrame' = "lost"
  /\ prev' = Snapshot
  /\ hist' = HistLost

\* 338-362: the frame reports no hand
HandLost(dt) ==
  /\ now' = now + dt
  /\ handVisible' = FALSE
  /\ pinching' = FALSE
  /\ dragging' = FALSE
  /\ gestureMode' = "idle"
  /\ dwellProgress' = 0
  /\ pinchState' = FALSE
  /\ pinchFrames' = 0
  /\ scrollFrames' = 0
  /\ zoomFrames' = 0
  /\ scrollReleaseFrames' = 0
  /\ zoomReleaseFrames' = 0
  /\ scrollMode' = FALSE
  /\ zoomMode' = FALSE
  /\ dragFrames' = 0
  /\ dragTarget' = None
  /\ pinchStartTime' = 0
  /\ zoomState' = Null
  /\ scrollAnchor' = Null
  /\ previousPoint' = Null
  /\ dwell' = [id |-> None, startedAt |-> 0]
  /\ UNCHANGED <<clickCooldown, dragSwapCooldown, swipeCooldown, tiles, cursor,
                 zoomLevel, scrollOffset, scrollOffsetX, activeTile, closure>>
  /\ events' = <<>>
  /\ lastFrame' = "lost"
  /\ prev' = Snapshot
  /\ hist' = HistLost

\* 364-369: a hand without its index or thumb tip; the callback returns
SkipFrame(dt) ==
  /\ now' = now + dt
  /\ UNCHANGED <<refs, ui, closure, hist>>
  /\ events' = <<>>
  /\ lastFrame' = "skipped"
  /\ prev' = Snapshot

\* 371-381: both tips present but the wrist, index base, middle base or pinky
\* base missing; distance() reads .x of undefined and the callback throws
LandmarkFault(dt) ==
  /\ now' = now + dt
  /\ handVisible' = TRUE
  /\ UNCHANGED <<refs, tiles, cursor, pinching, dragging, gestureMode, zoomLevel,
                 scrollOffset, scrollOffsetX, dwellProgress, activeTile, closure, hist>>
  /\ events' = <<>>
  /\ lastFrame' = "fault"
  /\ prev' = Snapshot

\* 371-590: a frame with every landmark the callback reads (the middle tip
\* may be missing); t is performance.now() of line 377
HandFrame(f, dt) ==
  LET t == now + dt
      stableCursor == StableCursor(f, t)
      L == ModeLocks(f)
      zoomGesture == L.zoomGesture
      scrollGesture == L.scrollGesture
      scrollBranch == scrollGesture /\ f.middleTip
      nextPinch == NextPinch(f, scrollGesture, zoomGesture)
      base == IF L.z.cleared THEN Null ELSE zoomState
      anchor == IF L.s.cleared \/ zoomGesture THEN Null ELSE scrollAnchor
      steps == ScrollSteps(f, scrollGesture, anchor)
      dragFramesNow == DragFramesAfter(nextPinch, zoomGesture, scrollGesture)
      dragTargetNow == IF nextPinch /\ ~zoomGesture /\ ~scrollGesture THEN dragTarget ELSE None
      dragMode == dragFramesNow > DragHoldFrames /\ CallbackActiveTile # None
      swaps == DragSwaps(f, t, dragFramesNow, dragTargetNow)
      click == ShouldClick(t, nextPinch, scrollGesture, zoomGesture)
      cooldownNow == IF click THEN t ELSE clickCooldown
      pointer == ~nextPinch /\ ~scrollGesture /\ ~zoomGesture
      swipe == SwipeFires(f, t, pointer)
      direction == IF swipe /\ SwipeDx(f, t) > 0 THEN "right" ELSE "left"
      fires == DwellFires(f, t, pointer, cooldownNow)
      clicked == click /\ f.hover # None
      afterClick == IF clicked THEN ToggleTile(activeTile, f.hover) ELSE activeTile
      afterSwipe == IF swipe THEN SwipeTarget(afterClick, direction, closure.tiles)
                    ELSE afterClick
  IN
  /\ now' = t
  /\ handVisible' = TRUE
  /\ cursor' = stableCursor
  /\ zoomMode' = L.zoomMode
  /\ zoomFrames' = L.z.frames
  /\ zoomReleaseFrames' = L.z.release
  /\ scrollMode' = L.scrollMode
  /\ scrollFrames' = L.s.frames
  /\ scrollReleaseFrames' = L.s.release
  /\ pinchFrames' = IF nextPinch THEN pinchFrames + 1 ELSE 0
  /\ pinching' = nextPinch
  /\ pinchStartTime' = IF nextPinch /\ ~pinchState THEN t ELSE pinchStartTime
  /\ zoomState' = ZoomStateAfter(f, zoomGesture, base)
  /\ zoomLevel' = ZoomLevelAfter(f, zoomGesture, base)
  /\ scrollAnchor' = ScrollAnchorAfter(f, scrollGesture, anchor)
  /\ scrollOffset' = clamp(scrollOffset + steps.y, -ScrollMax, ScrollMax)
  /\ scrollOffsetX' = clamp(scrollOffsetX + steps.x, -ScrollMax, ScrollMax)
  /\ dragFrames' = dragFramesNow
  /\ dragging' = IF dragMode THEN TRUE
                 ELSE IF nextPinch /\ ~zoomGesture /\ ~scrollGesture THEN dragging
                 ELSE FALSE
  /\ tiles' = IF swaps THEN reorderTiles(tiles, CallbackActiveTile, f.hover) ELSE tiles
  /\ dragTarget' = IF swaps THEN f.hover ELSE dragTargetNow
  /\ dragSwapCooldown' = IF swaps THEN t ELSE dragSwapCooldown
  /\ clickCooldown' = IF fires THEN t ELSE cooldownNow
  /\ swipeCooldown' = IF swipe THEN t ELSE swipeCooldown
  /\ dwell' = DwellAfter(f, t, pointer, cooldownNow)
  /\ dwellProgress' = DwellProgressAfter(f, t, zoomGesture, scrollBranch, pointer, fires)
  /\ activeTile' = IF fires THEN ToggleTile(afterSwipe, f.hover) ELSE afterSwipe
  /\ gestureMode' = GestureLabel(zoomGesture, scrollBranch, dragMode, click, pointer, swipe)
  /\ previousPoint' = Some([x |-> stableCursor.x, y |-> stableCursor.y, t |-> t])
  /\ pinchState' = nextPinch
  /\ UNCHANGED closure
  /\ events' = (IF swaps THEN <<[type |-> "DragReorder", from |-> CallbackActiveTile,
                                 to |-> f.hover]>> ELSE <<>>)
               \o (IF clicked THEN <<[type |-> "Click", tile |-> f.hover]>> ELSE <<>>)
               \o (IF swipe THEN <<[type |-> "SwipeSelect", direction |-> direction]>>
                   ELSE <<>>)
               \o (IF fires THEN <<[type |-> "DwellClick", tile |-> f.hover]>> ELSE <<>>)
  /\ lastFrame' = "hand"
  /\ prev' = Snapshot
  /\ hist' = HistAfter(f, t, nextPinch, pointer, clicked, fires, swipe, swaps)

(* ------------------------- frame loop actions -------------------------- *)
\* the engine state is left alone
EngineIdle ==
  /\ UNCHANGED <<now, refs, ui, closure, hist, prev>>
  /\ events' = <<>>
  /\ lastFrame' = lastFrame

\* renderFrame without the processingRef test: every tick sends
RenderFrameUnguarded ==
  /\ loop.raf > 0
  /\ loop' = IF loop.tornDown THEN [loop EXCEPT !.raf = @ - 1]
             ELSE [loop EXCEPT !.raf = @ - 1, !.processing = TRUE, !.inFlight = @ + 1]
  /\ EngineIdle

\* 594-602: a pending animation frame fires and renderFrame runs up to its
\* await: it returns when the video element is gone, sends the image when
\* nothing is being processed, and otherwise schedules the next frame at once
RenderFrame ==
  /\ loop.raf > 0
  /\ loop' = IF loop.tornDown THEN [loop EXCEPT !.raf = @ - 1]
             ELSE IF ~loop.processing
             THEN [loop EXCEPT !.raf = @ - 1, !.processing = TRUE, !.inFlight = @ + 1]
             ELSE [loop EXCEPT !.skipped = TRUE]
  /\ EngineIdle

\* 602-606: send() resolves: processingRef is cleared and the next animation
\* frame is requested
SendResolves ==
  /\ loop.inFlight > 0
  /\ loop' = [loop EXCEPT !.inFlight = @ - 1, !.processing = FALSE, !.raf = @ + 1,
                          !.lateResults = loop.tornDown \/ @]

\* send() rejects with what the callback threw: renderFrame ends at its await
SendRejects ==
  /\ loop.inFlight > 0
  /\ loop' = [loop EXCEPT !.inFlight = @ - 1, !.lateResults = loop.tornDown \/ @]

\* 303-333, 608-610: a second press of Start, made before the first had set
\* cameraEnabled, runs to its end: another stream, another Hands instance and
\* another render chain; streamRef, handsRef and animationFrameRef now hold
\* the new ones
StartEngine ==
  /\ ~loop.tornDown
  /\ loop.started < MaxStarts
  /\ loop' = [loop EXCEPT !.started = @ + 1, !.raf = @ + 1, !.liveStreams = @ + 1]
  /\ gestureMode' = "pointer"
  /\ UNCHANGED <<now, refs, tiles, cursor, handVisible, pinching, dragging, zoomLevel,
                 scrollOffset, scrollOffsetX, dwellProgress, activeTile, closure,
                 hist, prev>>
  /\ events' = <<>>
  /\ lastFrame' = lastFrame

\* 132-144: the component unmounts: the animation frame animationFrameRef
\* names is cancelled if it is still pending, the Hands instance is closed and
\* the tracks of the stream in streamRef are stopped
Teardown ==
  /\ ~loop.tornDown
  /\ loop' = [loop EXCEPT !.tornDown = TRUE,
                          !.raf = IF @ > 0 THEN @ - 1 ELSE 0,
                          !.closed = TRUE,
                          !.liveStreams = @ - 1,
                          !.refsAtTeardown = refs]
  /\ EngineIdle

(* ---------------------------- specification ---------------------------- *)
\* the detector delivers results dts apart until the clock passes horizon
LostIn(dts, horizon) ==
  \E dt \in dts : now + dt <= horizon /\ HandLost(dt) /\ UNCHANGED loop
SkipIn(dts, horizon) ==
  \E dt \in dts : now + dt <= horizon /\ SkipFrame(dt) /\ UNCHANGED loop
FaultIn(dts, horizon) ==
  \E dt \in dts : now + dt <= horizon /\ LandmarkFault(dt) /\ UNCHANGED loop
FrameIn(frames, dts, horizon) ==
  \E dt \in dts : now + dt <= horizon /\ \E f \in frames : HandFrame(f, dt) /\ UNCHANGED loop
\* the same, with no frame of frames before the clock reaches from
FrameFrom(frames, dts, from, horizon) ==
  \E dt \in dts : now + dt >= from /\ now + dt <= horizon
                    /\ \E f \in frames : HandFrame(f, dt) /\ UNCHANGED loop

Next ==
  \/ LostIn(Dts, MaxNow)
  \/ SkipIn(Dts, MaxNow)
  \/ FaultIn(Dts, MaxNow)
  \/ FrameIn(Frames, Dts, MaxNow)

Spec == Init /\ [][Next]_vars

\* SpecLoop: the frame loop around the callback; a result arrives only while
\* a send is in flight, and the send then settles
LoopLost == \E dt \in LoopDts : now + dt <= LoopMaxNow /\ HandLost(dt) /\ SendResolves
LoopSkip == \E dt \in LoopDts : now + dt <= LoopMaxNow /\ SkipFrame(dt) /\ SendResolves
LoopFrame ==
  \E dt \in LoopDts : now + dt <= LoopMaxNow
                       /\ \E f \in LoopFrames : HandFrame(f, dt) /\ SendResolves
\* whether the library hands the callback's exception on to send() is its
\* affair: both outcomes
LoopFault ==
  \E dt \in LoopDts : now + dt <= LoopMaxNow
                       /\ LandmarkFault(dt) /\ (SendResolves \/ SendRejects)

NextLoop ==
  \/ RenderFrame
  \/ StartEngine
  \/ Teardown
  \/ LoopLost
  \/ LoopSkip
  \/ LoopFrame
  \/ LoopFault

SpecLoop == Init /\ [][NextLoop]_vars

NextPointing ==
  \/ LostIn(CursorDts, CursorMaxNow)
  \/ SkipIn(CursorDts, CursorMaxNow)
  \/ FrameIn(CursorFrames, CursorDts, CursorMaxNow)

SpecCursor == Init /\ [][NextPointing]_vars

NextLatch ==
  \/ LostIn(LatchDts, LatchMaxNow)
  \/ SkipIn(LatchDts, LatchMaxNow)
  \/ FaultIn(LatchDts, LatchMaxNow)
  \/ FrameIn(LatchFrames, LatchDts, LatchMaxNow)

SpecLatch == Init /\ [][NextLatch]_vars

NextHold ==
  \/ LostIn(HoldDts, HoldMaxNow)
  \/ SkipIn(HoldDts, HoldMaxNow)
  \/ FrameIn(HoldFrames, HoldDts, HoldMaxNow)

SpecHold == Init /\ [][NextHold]_vars

NextPinching ==
  \/ LostIn(PinchDts, PinchMaxNow)
  \/ SkipIn(PinchDts, PinchMaxNow)
  \/ FrameIn(PinchFrames, PinchDts, PinchMaxNow)

SpecPinch == Init /\ [][NextPinching]_vars

NextPan ==
  \/ LostIn(PanDts, PanMaxNow)
  \/ FrameIn(PanArmFrames, PanDts, PanArmEnd)
  \/ FrameIn(PanFrames, PanDts, PanMaxNow)

SpecPan == Init /\ [][NextPan]_vars

NextLabel ==
  \/ LostIn(LabelDts, LabelMaxNow)
  \/ FrameIn(LabelFrames, LabelDts, LabelMaxNow)

SpecLabel == Init /\ [][NextLabel]_vars

NextClick ==
  \/ LostIn(ClickDts, ClickMaxNow)
  \/ SkipIn(ClickDts, ClickMaxNow)
  \/ FrameIn(ClickFrames, ClickDts, ClickMaxNow)

SpecClick == Init /\ [][NextClick]_vars

NextDwell ==
  \/ LostIn(DwellDts, DwellMaxNow)
  \/ SkipIn(DwellDts, DwellMaxNow)
  \/ FrameIn(DwellFrames, DwellDts, DwellMaxNow)

SpecDwell == Init /\ [][NextDwell]_vars

NextCooldown ==
  \/ LostIn(CoolDts, CoolMaxNow)
  \/ SkipIn(CoolDts, CoolMaxNow)
  \/ FrameIn(CoolFrames, CoolDts, CoolMaxNow)

SpecCooldown == Init /\ [][NextCooldown]_vars

NextSwipe ==
  \/ LostIn(SwipeDts, SwipeMaxNow)
  \/ SkipIn(SwipeDts, SwipeMaxNow)
  \/ FrameIn(SwipeFrames, SwipeDts, SwipeMaxNow)

SpecSwipe == Init /\ [][NextSwipe]_vars

NextQuick ==
  \/ LostIn(QuickDts, QuickTapEnd)
  \/ FrameIn(QuickPinchFrames, QuickDts, QuickTapEnd)
  \/ FrameIn(QuickOpenFrames, QuickDts, QuickMaxNow)
  \/ FrameFrom(QuickPinchFrames, QuickDts, QuickHoldFrom, QuickMaxNow)

SpecQuick == Init /\ [][NextQuick]_vars

NextDrag ==
  \/ LostIn(DragDts, DragTapEnd)
  \/ SkipIn(DragDts, DragTapEnd)
  \/ FrameIn(DragTapFrames, DragDts, DragTapEnd)
  \/ FrameIn(DragPinchFrames, DragDts, DragMaxNow)

SpecDrag == Init /\ [][NextDrag]_vars

(* ------------------------------- claims -------------------------------- *)
Discrete == {"Click", "DwellClick", "SwipeSelect", "DragReorder"}
NoDiscreteEvent == \A i \in 1..Len(events) : events[i].type \notin Discrete

ScrollEntered == scrollMode /\ ~prev.scrollMode
ZoomEntered == zoomMode /\ ~prev.zoomMode

\* C1: at the end of every frame, whatever the frames so far (hand present,
\* hand absent, landmarks missing), scrollActive and zoomActive are not both
\* true.
C1_MutualExclusion == ~(scrollMode /\ zoomMode)

\* zoom is locked and the scroll start signal has just held for three frames
C1_Witness == zoomMode /\ ~scrollMode /\ hist.scrollStartRun = ArmFrames

\* C2: after a frame with no hand the mode locks and pinchActive are false,
\* the six frame counters are 0, the anchors, the drag target, the dwell
\* target and previousPoint are cleared, and the mode label is idle.
C2_NoHandResets ==
  lastFrame = "lost" =>
    /\ ~pinchState /\ ~scrollMode /\ ~zoomMode
    /\ pinchFrames = 0 /\ scrollFrames = 0 /\ zoomFrames = 0
    /\ scrollReleaseFrames = 0 /\ zoomReleaseFrames = 0 /\ dragFrames = 0
    /\ scrollAnchor = Null /\ zoomState = Null /\ dragTarget = None
    /\ dwell.id = None /\ previousPoint = Null
    /\ gestureMode = "idle"

\* the hand was lost while a lock was held
C2_Witness == lastFrame = "lost" /\ hist.lostIn \in {"scroll", "zoom"}

\* C3: a lock is entered only on a frame that is at least the third in a row,
\* since the last no-hand frame, whose start signal is true; hold-only frames
\* leave the run at 0.
C3_RearmsFromThree ==
  /\ ScrollEntered => hist.scrollStartRun = ArmFrames
  /\ ZoomEntered => hist.zoomStartRun = ArmFrames

\* scroll is entered again after the hand was lost while scroll was held
C3_Witness == ScrollEntered /\ hist.lostIn = "scroll"

\* C9: at the end of a frame with scroll or zoom active pinchActive is false and
\* the frame emitted no Click, DwellClick, SwipeSelect or DragReorder; so
\* pinchActive is never true at the end of a frame on which a lock is active.
C9_LockSuppresses == (scrollMode \/ zoomMode) => ~pinchState /\ NoDiscreteEvent

\* a lock is entered on a frame that found a pinch in progress
C9_Witness == (ScrollEntered \/ ZoomEntered) /\ prev.pinchState

\* C10: on the frame a lock is entered the pinch, the drag and the dwell state
\* are reset: pinchActive false, pinch and drag counters 0, no drag target, the
\* dwell target and start time cleared.
C10_EntryResets ==
  (ScrollEntered \/ ZoomEntered) =>
    /\ ~pinchState /\ pinchFrames = 0 /\ dragFrames = 0 /\ dragTarget = None
    /\ dwell = [id |-> None, startedAt |-> 0]

\* the events of type `type` in a frame's events ev
Of(ev, type) == {i \in 1..Len(ev) : ev[i].type = type}

\* a processed frame ends a pinch with no lock active, less than 280 ms after
\* the frame that began it, over a tile
TapEnds ==
  /\ lastFrame' = "hand"
  /\ pinchState /\ ~pinchState'
  /\ ~scrollMode' /\ ~zoomMode'
  /\ now' - hist.pinchBeganAt < TapMaxMs
  /\ hist'.hover # None

OneClickOnHover ==
  /\ Cardinality(Of(events', "Click")) = 1
  /\ \A i \in Of(events', "Click") : events'[i].tile = hist'.hover

\* C4, the cooldown counted from the last emitted click: a tap that ends more
\* than 420 ms after the last Click or
\* DwellClick emitted (or with none emitted yet) emits exactly one Click for
\* the tile under the cursor.
C4_TapClicks ==
  [][(TapEnds /\ (hist.lastClickAt = Never \/ now' - hist.lastClickAt > ClickCooldownMs))
       => OneClickOnHover]_vars

\* C4, the cooldown counted as the program counts it: a tap that ends more
\* than 420 ms after the click cooldown
\* was last set (by any recognised tap or dwell click, whether or not a tile
\* was under the cursor) emits exactly one Click for the tile under the cursor.
C4_TapClicksAfterCooldown ==
  [][(TapEnds /\ now' - clickCooldown > ClickCooldownMs) => OneClickOnHover]_vars

\* a tap has just clicked the tile under the cursor
C4_Witness ==
  /\ lastFrame = "hand" /\ prev.pinchState /\ ~pinchState
  /\ now - hist.pinchBeganAt < TapMaxMs
  /\ events = <<[type |-> "Click", tile |-> hist.hover]>>

\* C5: a frame that ends a pinch 280 ms or more after the frame that began it
\* emits no Click.
C5_HoldNeverClicks ==
  (lastFrame = "hand" /\ prev.pinchState /\ ~pinchState
     /\ now - hist.pinchBeganAt >= TapMaxMs) => Of(events, "Click") = {}

\* a pinch of 280 ms or more is released over a tile, no lock active and the
\* click cooldown over
C5_Witness ==
  /\ lastFrame = "hand" /\ prev.pinchState /\ ~pinchState
  /\ now - hist.pinchBeganAt >= TapMaxMs
  /\ ~scrollMode /\ ~zoomMode /\ hist.hover # None
  /\ now - clickCooldown > ClickCooldownMs

\* C6: while the cursor stays on one tile in pointer sub-mode on every frame
\* since the hover began, no DwellClick is emitted before 980 ms have elapsed
\* since the hover began, and exactly one has been emitted once 980 ms have
\* elapsed (a second is not due before 1960 ms).
C6_DwellAfter980 ==
  (lastFrame = "hand" /\ hist.pointerSince # Never /\ hist.pointerSince = hist.hoverSince) =>
    /\ now - hist.hoverSince < DwellMs => hist.dwellClicks = 0
    /\ (now - hist.hoverSince >= DwellMs /\ now - hist.hoverSince < 2 * DwellMs)
         => hist.dwellClicks = 1

\* a processed frame in pointer sub-mode, less than 135 ms after the previous
\* processed frame, whose cursor is more than 0.22 to its left or right
SwipeMove ==
  /\ lastFrame' = "hand"
  /\ ~pinchState' /\ ~scrollMode' /\ ~zoomMode'
  /\ previousPoint # Null
  /\ now' - previousPoint[1].t < SwipeMaxDtMs
  /\ Abs(cursor'.x - previousPoint[1].x) > SwipeMinDx

\* C7: such a frame emits exactly one SwipeSelect, right if the cursor moved
\* right and left otherwise, when no SwipeSelect was emitted in the 650 ms
\* before it, and emits none when one was.
C7_SwipeOncePerCooldown ==
  [][SwipeMove =>
       IF hist.lastSwipeAt = Never \/ now' - hist.lastSwipeAt > SwipeCooldownMs
       THEN /\ Cardinality(Of(events', "SwipeSelect")) = 1
            /\ \A i \in Of(events', "SwipeSelect") :
                 events'[i].direction =
                   IF cursor'.x > previousPoint[1].x THEN "right" ELSE "left"
       ELSE Of(events', "SwipeSelect") = {}]_vars

\* a frame has just swiped to the right
C7_Witness ==
  /\ lastFrame = "hand"
  /\ events = <<[type |-> "SwipeSelect", direction |-> "right"]>>
  /\ hist.lastSwipeAt = now

\* C8: with a tile selected and a pinch held for 13 or more frames with no
\* lock, once a different tile has been under the cursor for 300 ms exactly one
\* DragReorder to it has been emitted.
C8_DragReorders ==
  (/\ lastFrame = "hand"
   /\ activeTile # None
   /\ ~scrollMode /\ ~zoomMode
   /\ dragFrames > DragHoldFrames
   /\ hist.hover \notin {None, activeTile}
   /\ now - hist.hoverSince >= 300) => hist.reorders = 1

\* C11: a frame with a hand that lacks a landmark the callback reads (a
\* fingertip, the middle tip, a palm landmark) raises no fault, emits no event
\* and leaves every ref as it was.
C11_MissingLandmarkNoOp ==
  [][(\/ lastFrame' \in {"skipped", "fault"}
      \/ lastFrame' = "hand" /\ ~hist'.middleTip)
       => (lastFrame' # "fault" /\ events' = <<>> /\ refs' = refs)]_vars

\* C12: at most one detector invocation is in flight, and only while
\* processingRef is set; a render tick that finds it set starts none.
C12_OneInFlight ==
  /\ loop.inFlight <= 1
  /\ loop.inFlight = 1 => loop.processing

\* a render tick of one chain has found the other chain's invocation in flight
C12_Witness == loop.skipped /\ loop.inFlight = 1 /\ loop.started = 2

\* C13: once torn down, no animation frame is pending, no send is started, no
\* stream is live, and a result that arrives changes no ref and emits nothing.
C13_TeardownStopsAll ==
  [][loop'.tornDown =>
       /\ loop'.raf = 0
       /\ loop'.inFlight <= loop.inFlight
       /\ loop'.liveStreams = 0
       /\ refs' = loop'.refsAtTeardown
       /\ (loop'.lateResults => events' = <<>>)]_vars

InUnitSquare(p) == p.x \in 0..1000 /\ p.y \in 0..1000

\* C14: the cursor, and previousPoint when there is one, have both
\* coordinates in [0, 1], wherever the detector puts the fingertip.
C14_CursorInUnitSquare ==
  /\ InUnitSquare(cursor)
  /\ previousPoint # Null => InUnitSquare(previousPoint[1])

\* a frame whose fingertip lies outside the image has followed a frame whose
\* fingertip lay outside it on the other side
C14_Witness ==
  /\ lastFrame = "hand"
  /\ hist.rawTip.x > 1000
  /\ cursor.x > 0 /\ cursor.x < 500

\* C15, for taps: what a frame emits after a no-hand frame is what an engine
\* that saw nothing before that frame would emit; such an engine's click
\* cooldown is the one set since the no-hand frame, so a tap that ends more
\* than 420 ms after the cooldown was last set since the latest no-hand frame
\* emits its Click.
C15_NothingSurvivesLoss ==
  [][(TapEnds /\ hist.lostIn # "never" /\ now' - hist.coolSinceLost > ClickCooldownMs)
       => OneClickOnHover]_vars

\* C16: a processed frame that finds scroll (zoom) active ends it when the
\* frame is the 5th in a row whose hold signal is false, keeps it when fewer
\* than 5 such frames have passed, and leaves the release counter at 0 when
\* its hold signal is true.
C16_ReleaseOnFifth ==
  [][lastFrame' = "hand" =>
       /\ scrollMode =>
            /\ hist'.scrollDropRun = ReleaseFrames => ~scrollMode'
            /\ hist'.scrollDropRun < ReleaseFrames => scrollMode'
            /\ hist'.scrollDropRun = 0 => scrollReleaseFrames' = 0
       /\ zoomMode =>
            /\ hist'.zoomDropRun = ReleaseFrames => ~zoomMode'
            /\ hist'.zoomDropRun < ReleaseFrames => zoomMode'
            /\ hist'.zoomDropRun = 0 => zoomReleaseFrames' = 0]_vars

\* C17: a processed frame that finds zoom inactive and scroll inactive
\* activates zoom exactly when it is the third such frame in a row with the
\* zoom start signal; a processed frame that finds scroll inactive and leaves
\* zoom inactive activates scroll exactly when it is the third such frame in
\* a row with the scroll start signal; a frame without a mode's start signal
\* leaves that mode's arming counter at 0.
C17_ArmsOnThird ==
  [][lastFrame' = "hand" =>
       /\ (~zoomMode /\ ~scrollMode) => (zoomMode' <=> hist'.zoomArmRun = ArmFrames)
       /\ (~scrollMode /\ ~zoomMode') => (scrollMode' <=> hist'.scrollArmRun = ArmFrames)
       /\ hist'.zoomStartRun = 0 => zoomFrames' = 0
       /\ hist'.scrollStartRun = 0 => scrollFrames' = 0]_vars

\* scroll is entered on the third frame in a row with its start signal, later
\* than the third frame delivered
C17_Witness ==
  /\ ScrollEntered /\ hist.scrollArmRun = ArmFrames
  /\ now > StartTime + 300

\* C18: a lock that is active stops being active only on a no-hand frame or
\* on a processed frame that is at least the 5th in a row with the lock's own
\* hold signal false, whatever the other mode's start signal is; and at the
\* end of every frame with a lock active the other mode's arming counter is 0.
C18_LockHolds ==
  [][/\ (scrollMode /\ ~scrollMode') =>
          \/ lastFrame' = "lost"
          \/ lastFrame' = "hand" /\ hist'.scrollDropRun >= ReleaseFrames
     /\ (zoomMode /\ ~zoomMode') =>
          \/ lastFrame' = "lost"
          \/ lastFrame' = "hand" /\ hist'.zoomDropRun >= ReleaseFrames
     /\ scrollMode' => zoomFrames' = 0
     /\ zoomMode' => scrollFrames' = 0]_vars

\* zoom is still active after three frames in a row with the scroll start
\* signal
C18_Witness == zoomMode /\ prev.zoomMode /\ hist.scrollStartRun = ArmFrames /\ hist.zoomDropRun = ArmFrames

\* C19: on a processed frame that leaves neither lock active, pinchActive
\* goes from false to true only if the thumb-index distance is below 0.34,
\* stays true if it was true and the distance is at most 0.42, and is
\* unchanged for every distance from 0.34 to 0.42 inclusive.
C19_PinchHysteresis ==
  [][(lastFrame' = "hand" /\ hist'.pinch # Never) =>
       /\ (~pinchState /\ pinchState') => hist'.pinch < PinchStartThreshold
       /\ (pinchState /\ hist'.pinch <= PinchHoldThreshold) => pinchState'
       /\ hist'.pinch \in PinchStartThreshold..PinchHoldThreshold
            => pinchState' = pinchState]_vars

\* C20: a frame emits a Click only more than 420 ms after the latest Click or
\* DwellClick emitted before it, a DwellClick only more than 600 ms after it,
\* and never both.
C20_ClicksKeepApart ==
  [][/\ (Of(events', "Click") # {} /\ hist.lastClickAt # Never)
          => now' - hist.lastClickAt > ClickCooldownMs
     /\ (Of(events', "DwellClick") # {} /\ hist.lastClickAt # Never)
          => now' - hist.lastClickAt > DwellCooldownMs
     /\ ~(Of(events', "Click") # {} /\ Of(events', "DwellClick") # {})]_vars

\* a tap clicks on the frame that completes the dwell over the same tile, and
\* no DwellClick comes with it
C20_Witness ==
  /\ lastFrame = "hand"
  /\ events = <<[type |-> "Click", tile |-> hist.hover]>>
  /\ dwell.id = hist.hover
  /\ now - dwell.startedAt >= DwellMs

\* zoom was active before the frame just processed and is active after it
ZoomContinues == lastFrame' = "hand" /\ zoomMode /\ zoomMode'

\* C21: the frame on which zoom becomes active sets the anchor to the frame's
\* middle-thumb distance and leaves the zoom level alone; every later
\* zoom-active frame, with delta the frame's distance minus the anchor, makes
\* the level clamp(level * (1 + 3.6 * delta), 0.45, 2.6) (to a thousandth) if
\* |delta| > 0.0012 and leaves it alone otherwise, and makes the anchor
\* 0.45 * anchor + 0.55 * distance.
C21_ZoomMultiplies ==
  [][/\ (lastFrame' = "hand" /\ ~zoomMode /\ zoomMode') =>
          /\ zoomState' = Some([lastDistance |-> hist'.mt])
          /\ zoomLevel' = zoomLevel
     /\ ZoomContinues =>
          LET anchor == zoomState[1].lastDistance
              delta == hist'.mt - anchor
              scaled == clamp((zoomLevel * (1000 + (delta * 36) \div 10)) \div 1000,
                              ZoomMin, ZoomMax)
          IN  /\ zoomState # Null
              /\ zoomState' = Some([lastDistance |-> (anchor * 450 + hist'.mt * 550) \div 1000])
              /\ IF Abs(delta) > 1 THEN Abs(zoomLevel' - scaled) <= 1
                                    ELSE zoomLevel' = zoomLevel]_vars

\* C22: after every frame the zoom level is in [0.45, 2.6] and both scroll
\* offsets are in [-360, 360]; a frame changes each scroll offset by at most
\* 22; the zoom level changes only on processed frames that leave zoom active
\* and the scroll offsets only on processed frames that leave scroll active.
C22_LevelsBounded ==
  [][/\ zoomLevel' \in ZoomMin..ZoomMax
     /\ scrollOffset' \in (0 - ScrollMax)..ScrollMax
     /\ scrollOffsetX' \in (0 - ScrollMax)..ScrollMax
     /\ Abs(scrollOffset' - scrollOffset) <= ScrollStepMax
     /\ Abs(scrollOffsetX' - scrollOffsetX) <= ScrollStepMax
     /\ zoomLevel' # zoomLevel => (lastFrame' = "hand" /\ zoomMode')
     /\ (scrollOffset' # scrollOffset \/ scrollOffsetX' # scrollOffsetX)
          => (lastFrame' = "hand" /\ scrollMode')]_vars

\* scrolling has brought one offset to its upper limit and the other to its
\* lower limit
C22_Witness ==
  /\ lastFrame = "hand" /\ scrollMode
  /\ scrollOffset = ScrollMax /\ scrollOffsetX = 0 - ScrollMax

C24_DragNeverClicks ==
  [][(lastFrame' = "hand" /\ pinchState /\ ~pinchState' /\ hist.dragEntered)
       => Of(events', "Click") = {}]_vars

\* C25: a frame emits a DwellClick for a tile only at the end of 980 ms or
\* more of processed frames that were all in pointer sub-mode with that tile
\* under the cursor; so not on the frame that ends a pinch or a lock.
C25_DwellOnlyWhilePointing ==
  [][\A i \in Of(events', "DwellClick") :
       /\ events'[i].tile = hist'.hover
       /\ hist'.pointerSince # Never
       /\ now' - hist'.pointerSince >= DwellMs
       /\ ~pinchState /\ ~scrollMode /\ ~zoomMode]_vars

\* C26: at the end of every frame the mode label is zoom exactly when zoom is
\* active and scroll exactly when scroll is active.
C26_LabelFollowsLocks ==
  /\ gestureMode = "zoom" <=> zoomMode
  /\ gestureMode = "scroll" <=> scrollMode

\* C27: at the end of every frame each arming counter is at most 2, each
\* release counter is at most 5 and is 0 when its mode is inactive, zoomState
\* is present exactly when zoom is active, and scrollAnchor is present only
\* when scroll is active.
C27_LatchBookkeeping ==
  /\ zoomFrames \in 0..(ArmFrames - 1)
  /\ scrollFrames \in 0..(ArmFrames - 1)
  /\ zoomReleaseFrames \in 0..ReleaseFrames
  /\ scrollReleaseFrames \in 0..ReleaseFrames
  /\ ~zoomMode => zoomReleaseFrames = 0
  /\ ~scrollMode => scrollReleaseFrames = 0
  /\ zoomState # Null <=> zoomMode
  /\ scrollAnchor # Null => scrollMode

\* zoom has just been released by its sixth frame in a row without the hold
\* signal, while the scroll start signal is arming scroll
C27_Witness ==
  /\ lastFrame = "hand" /\ prev.zoomMode /\ ~zoomMode
  /\ zoomState = Null /\ zoomReleaseFrames = 0
  /\ scrollFrames > 0
====
